---------------------------- MODULE Spec2Model ----------------------------
(***************************************************************************)
(* Roland SP-404 MKII file automation: the name normaliser, the recursive  *)
(* directory mirror and the run entry points of the four front ends        *)
(* (local, macOS, GUI, remote share).                                      *)
(*                                                                         *)
(* A name is a sequence of characters; a character is a one-token string.  *)
(* Non-ASCII characters are written as tokens: "EACUTE" is U+00E9,         *)
(* "COMBACUTE" is U+0301, "ZHE"/"zhe" are U+0416/U+0436, "TAB" is U+0009.  *)
(***************************************************************************)
EXTENDS Integers, Sequences, FiniteSets, TLC

VARIABLES
    variant,    \* the front end: "local", "macos_local", "macos_smb", "gui", "remote"
    source_root,\* what the source root is: "dir", "missing", "not_dir", "unlistable"
    pc,         \* position of the run entry point: "start", "running", "finally",
                \* "done"; the GUI between two runs is at "idle"
    stack,      \* active process_directory calls, innermost last
    result,     \* what the run entry point returned ("none" before it returns)
    session,    \* the remote session or mount of the run: "none", "held", "released"
    released,   \* how many times the run released its session
    last,       \* the most recent log line of the traversal
    touched,    \* whether the run has processed any entry
    is_processing, \* the GUI's cancellation flag
    arg_name,   \* normalize_name: the raw name
    arg_counter,\* normalize_name: the counter
    norm_out,   \* normalize_name: the returned name, <<>> before the call
    temp_files, \* remote share: the staging copies present in the temp directory
    checked,    \* GUI worker: the is_processing check it has passed and not yet
                \* acted on: "none", "loop" (line 294) or "entry" (line 278)
    after_stop, \* GUI worker: files written and directories listed since the
                \* flag was cleared
    audio,      \* convert_audio_file: its local variables and the file it wrote
    mirror,     \* repeated runs: the source tree, the destination and what
                \* each run produced
    temp_dir,   \* remote share: whether temp_roland_processing exists
    gui         \* GUI: the two buttons, the worker threads that run
                \* run_processing, and the processing_finished callbacks

vars == <<variant, source_root, pc, stack, result, session, released, last,
          touched, is_processing, arg_name, arg_counter, norm_out,
          temp_files, checked, after_stop, audio, mirror, temp_dir, gui>>

----------------------------------------------------------------------------
(* Bounds *)

MaxNameLen == 3
MaxEntries == 2
MaxDepth == 1
MaxFrames == 2

----------------------------------------------------------------------------
(* Characters *)

AsciiLower == {"a", "b", "c", "d", "e", "f", "g", "h", "i", "j", "k", "l", "m",
               "n", "o", "p", "q", "r", "s", "t", "u", "v", "w", "x", "y", "z"}
AsciiUpper == {"A", "B", "C", "D", "E", "F", "G", "H", "I", "J", "K", "L", "M",
               "N", "O", "P", "Q", "R", "S", "T", "U", "V", "W", "X", "Y", "Z"}
AsciiDigit == {"0", "1", "2", "3", "4", "5", "6", "7", "8", "9"}
DigitChars == <<"0", "1", "2", "3", "4", "5", "6", "7", "8", "9">>

\* str.lower() on one character
Lower(c) ==
    CASE c = "W" -> "w"
      [] c = "A" -> "a"
      [] c = "V" -> "v"
      [] c = "T" -> "t"
      [] c = "ZHE" -> "zhe"
      [] OTHER -> c

\* unicodedata.normalize('NFKD', .) on one character
NFKDChar(c) ==
    IF c = "EACUTE" THEN <<"e", "COMBACUTE">> ELSE <<c>>

\* the class [a-zA-Z0-9_] of the filter
IsWordChar(c) == c \in AsciiLower \cup AsciiUpper \cup AsciiDigit \cup {"_"}

----------------------------------------------------------------------------
(* String helpers *)

\* unicodedata.normalize('NFKD', .) on a string
RECURSIVE NFKD(_)
NFKD(s) == IF s = <<>> THEN <<>> ELSE NFKDChar(Head(s)) \o NFKD(Tail(s))

\* str.lower() on a string
LowerStr(s) == [i \in 1..Len(s) |-> Lower(s[i])]

\* str.rfind('.') as a 1-based position, 0 when there is none
LastDot(name) ==
    LET dots == {i \in 1..Len(name) : name[i] = "."}
    IN IF dots = {} THEN 0 ELSE CHOOSE i \in dots : \A j \in dots : j <= i

\* pathlib: a suffix exists when the last dot is neither first nor last
HasSuffix(name) == LET p == LastDot(name) IN 1 < p /\ p < Len(name)

\* Path(name).suffix
PathSuffix(name) ==
    IF HasSuffix(name) THEN SubSeq(name, LastDot(name), Len(name)) ELSE <<>>

\* Path(name).stem
PathStem(name) ==
    IF HasSuffix(name) THEN SubSeq(name, 1, LastDot(name) - 1) ELSE name

\* str.replace(' ', '_')
ReplaceSpaces(s) == [i \in 1..Len(s) |-> IF s[i] = " " THEN "_" ELSE s[i]]

\* re.sub(r'[^a-zA-Z0-9_]', '', .)
FilterWord(s) == SelectSeq(s, IsWordChar)

\* re.sub(r'_+', '_', .)
RECURSIVE CollapseUnderscores(_)
CollapseUnderscores(s) ==
    IF Len(s) < 2 THEN s
    ELSE IF s[1] = "_" /\ s[2] = "_" THEN CollapseUnderscores(Tail(s))
    ELSE <<s[1]>> \o CollapseUnderscores(Tail(s))

\* str.strip('_')
RECURSIVE StripLeft(_)
StripLeft(s) == IF s # <<>> /\ Head(s) = "_" THEN StripLeft(Tail(s)) ELSE s

RECURSIVE StripRight(_)
StripRight(s) ==
    IF s # <<>> /\ s[Len(s)] = "_" THEN StripRight(SubSeq(s, 1, Len(s) - 1)) ELSE s

StripUnderscores(s) == StripRight(StripLeft(s))

\* decimal digits of n, most significant first
RECURSIVE Decimal(_)
Decimal(n) ==
    IF n < 10 THEN <<DigitChars[n + 1]>>
    ELSE Decimal(n \div 10) \o <<DigitChars[(n % 10) + 1]>>

\* a formatter that forgets the zero padding
Format03d_Unpadded(n) == Decimal(n)

\* f"{n:03d}"
Format03d(n) ==
    LET d == Decimal(n)
    IN IF Len(d) >= 3 THEN d ELSE [i \in 1..(3 - Len(d)) |-> "0"] \o d

Unnamed == <<"u", "n", "n", "a", "m", "e", "d">>

----------------------------------------------------------------------------
(* normalize_name *)

\* the stem after NFKD, space replacement, filter, collapse and strip
FilteredStem(name) ==
    StripUnderscores(CollapseUnderscores(FilterWord(ReplaceSpaces(
        NFKD(PathStem(name))))))

\* Path(name).suffix.lower()
Extension(name) == LowerStr(PathSuffix(name))

\* an if/elif that gives the fallback stem a suffix only for counter > 0
CounterStem_PlainFallback(normalized, counter) ==
    IF counter > 0
    THEN (IF normalized = <<>> THEN Unnamed ELSE normalized)
             \o <<"_">> \o Format03d(counter)
    ELSE IF normalized = <<>> THEN Unnamed ELSE normalized

\* an if/elif that appends the counter even when it is 0
CounterStem_AlwaysSuffix(normalized, counter) ==
    (IF normalized = <<>> THEN Unnamed ELSE normalized)
        \o <<"_">> \o Format03d(counter)

\* the stem chosen by the if/elif of the local, macOS and GUI front ends
CounterStem(normalized, counter) ==
    IF normalized = <<>> THEN Unnamed \o <<"_">> \o Format03d(counter)
    ELSE IF counter > 0 THEN normalized \o <<"_">> \o Format03d(counter)
    ELSE normalized

\* normalize_name of the local, macOS and GUI front ends
normalize_name(name, counter) ==
    CounterStem(FilteredStem(name), counter) \o Extension(name)

\* the stem chosen by the remote-share front end, which takes no counter
SmbStem(normalized) == IF normalized = <<>> THEN Unnamed ELSE normalized

\* normalize_name of the remote-share front end
normalize_name_smb(name) == SmbStem(FilteredStem(name)) \o Extension(name)

----------------------------------------------------------------------------
(* Inputs of the normaliser *)

\* the characters raw names are drawn from
Alphabet == {"t", "W", "1", "_", " ", ".", "TAB", "EACUTE", "ZHE"}

\* "Кириллица_файл.wav" (every letter of the stem is Cyrillic)
CyrillicWav == <<"ZHE", "zhe", "_", "zhe", ".", "w", "a", "v">>
\* "File with spaces.wav", shortened to "t t.wav"
SpacedWav == <<"t", " ", "t", ".", "w", "a", "v">>
\* a directory named "t.W t" (a dot followed by a word with a space)
DottedDir == <<"t", ".", "W", " ", "t">>

\* entry names: never empty, never "." or ".."
RawNames ==
    ((UNION {[1..k -> Alphabet] : k \in 1..MaxNameLen})
        \ {<<".">>, <<".", ".">>})
    \cup {CyrillicWav, SpacedWav, DottedDir}

Counters == {0, 1, 42, 1000}

NoFrameLog == [op |-> "none", depth |-> 0, left |-> 0]

NoneAfterStop == [written |-> 0, listed |-> 0]

\* no run has been made
NoMirror == [run |-> 0]

\* the GUI before a run: Start is enabled (line 107), Stop is disabled (line
\* 111), no worker thread runs and no callback is queued
GuiIdle ==
    [start_button |-> "normal", stop_button |-> "disabled", workers |-> 0,
     pending |-> 0, scheduled |-> 0, restarted |-> FALSE]

\* start_processing, once its checks have passed: Start is disabled, Stop is
\* enabled and a worker thread that runs run_processing is started
AfterStart(g) ==
    [g EXCEPT !.start_button = "disabled", !.stop_button = "normal",
              !.workers = @ + 1, !.scheduled = 0]

\* no file has been read
NoAudio == [sample_rate |-> 0, data |-> <<>>, den |-> 1, columns |-> 0]

----------------------------------------------------------------------------
(* SpecNorm: one call of normalize_name on a drawn name and counter *)

InitNorm ==
    /\ variant \in {"local", "remote"}
    /\ source_root = "dir"
    /\ pc = "norm_call"
    /\ stack = <<>>
    /\ result = "none"
    /\ session = "none"
    /\ released = 0
    /\ last = NoFrameLog
    /\ touched = FALSE
    /\ is_processing = FALSE
    /\ arg_name \in RawNames
    /\ arg_counter \in Counters
    /\ norm_out = <<>>
    /\ temp_files = {}
    /\ checked = "none"
    /\ after_stop = NoneAfterStop
    /\ audio = NoAudio
    /\ mirror = NoMirror
    /\ temp_dir = FALSE
    /\ gui = GuiIdle

\* the call: the remote-share class has no counter parameter
NormalizeCall ==
    /\ pc = "norm_call"
    /\ norm_out' = IF variant = "remote" THEN normalize_name_smb(arg_name)
                   ELSE normalize_name(arg_name, arg_counter)
    /\ pc' = "norm_returned"
    /\ UNCHANGED <<variant, source_root, stack, result, session, released,
                   last, touched, is_processing, arg_name, arg_counter,
                   temp_files, checked, after_stop, audio, mirror, temp_dir, gui>>

\* the returned name is given to normalize_name again, with the same counter
NormalizeAgain ==
    /\ pc = "norm_returned"
    /\ arg_name' = norm_out
    /\ norm_out' = IF variant = "remote" THEN normalize_name_smb(norm_out)
                   ELSE normalize_name(norm_out, arg_counter)
    /\ pc' = "norm_twice"
    /\ UNCHANGED <<variant, source_root, stack, result, session, released,
                   last, touched, is_processing, arg_counter,
                   temp_files, checked, after_stop, audio, mirror, temp_dir, gui>>

NextNorm ==
    \/ NormalizeCall
    \/ NormalizeAgain

SpecNorm == InitNorm /\ [][NextNorm]_vars

----------------------------------------------------------------------------
(* convert_audio_file *)

(* A sample is an exact fraction: the arrays hold numerators, audio.den is  *)
(* the denominator they share. data is a sequence of frames, a frame a      *)
(* sequence of one sample per column.                                       *)

\* self.supported_sample_rates
supported_sample_rates == <<44100, 48000>>

\* the rates of the files read
SampleRates == {32000, 44100, 46050, 46051, 48000, 96000}

\* the columns of the array sf.read returns (1 for a mono file)
ChannelCounts == {1, 2}

\* the numerators of the samples read, over SampleDen
SampleValues == {-1, 0, 1}
SampleDen == 2

\* data / max(abs(data)) * 0.95
HeadroomNum == 95
HeadroomDen == 100

\* data * 32767
FullScale == 32767

Abs(x) == IF x < 0 THEN -x ELSE x

\* the arrays of n frames and c columns
Arrays(n, c) == [1..n -> [1..c -> SampleValues]]

\* every sample of the array is 0
AllZero(data) ==
    \A i \in 1..Len(data) : \A j \in 1..Len(data[i]) : data[i][j] = 0

\* data, sample_rate = sf.read(input_path)
ReadAudio(rate, c, data) ==
    [sample_rate |-> rate, data |-> data, den |-> SampleDen, columns |-> c,
     current_channels |-> 0, target_sample_rate |-> 0, num_samples |-> 0,
     data_16bit |-> <<>>, out_rate |-> 0, out_channels |-> 0,
     n_in |-> Len(data), silent_in |-> AllZero(data), failed_at |-> "none"]

\* a min() that keeps the last of two equally near rates
NearestRate_TieHigh(r) ==
    LET d(i) == Abs(supported_sample_rates[i] - r)
        best == CHOOSE i \in 1..Len(supported_sample_rates) :
                    \A j \in 1..Len(supported_sample_rates) :
                        /\ d(i) <= d(j)
                        /\ j > i => d(j) > d(i)
    IN supported_sample_rates[best]

\* min(self.supported_sample_rates, key=lambda x: abs(x - r)): the first of
\* the nearest
NearestRate(r) ==
    LET d(i) == Abs(supported_sample_rates[i] - r)
        best == CHOOSE i \in 1..Len(supported_sample_rates) :
                    \A j \in 1..Len(supported_sample_rates) :
                        /\ d(i) <= d(j)
                        /\ j < i => d(j) > d(i)
    IN supported_sample_rates[best]

\* int(len(data) * target / current): truncation of a non-negative quotient
NumSamples(n, target, current) == (n * target) \div current

\* what signal.resample(data, num) may return: num frames of the same
\* columns, all zero when the input is all zero
Resampled(data, num, c) ==
    IF AllZero(data) THEN {[i \in 1..num |-> [j \in 1..c |-> 0]]}
    ELSE Arrays(num, c)

RECURSIVE SumSeq(_)
SumSeq(f) == IF f = <<>> THEN 0 ELSE Head(f) + SumSeq(Tail(f))

\* np.mean(data, axis=1): one column, the denominator grows by the columns
MeanOverColumns(data) == [i \in 1..Len(data) |-> <<SumSeq(data[i])>>]

\* np.max(np.abs(data)), as a numerator
Peak(data) ==
    LET mags == {0} \cup UNION {{Abs(data[i][j]) : j \in DOMAIN data[i]} :
                                    i \in 1..Len(data)}
    IN CHOOSE m \in mags : \A x \in mags : x <= m

\* data / peak * 0.95: the numerators over the new denominator peak * 100
Scaled(data) == [i \in 1..Len(data) |->
                    [j \in DOMAIN data[i] |-> data[i][j] * HeadroomNum]]

\* float to int16 of astype: the fraction is cut off, toward zero
TruncDiv(a, b) == IF a >= 0 THEN a \div b ELSE -((-a) \div b)

\* (data * 32767).astype(np.int16) on one sample
ToInt16(num, den) == TruncDiv(num * FullScale, den)

\* the steps below leave everything but the position and the audio untouched
ConvertFrame ==
    UNCHANGED <<variant, source_root, stack, result, session, released, last,
                touched, is_processing, arg_name, arg_counter, norm_out,
                temp_files, checked, after_stop, mirror, temp_dir, gui>>

\* the conversion raised: the except clause logs it and returns False
ConvertFails(where) ==
    /\ audio' = [audio EXCEPT !.failed_at = where]
    /\ pc' = "conv_failed"

\* lines 108-118: the channels and the rate of the input, the target rate
SelectRate ==
    /\ pc = "conv_read"
    /\ audio' = [audio EXCEPT
                    !.current_channels = audio.columns,
                    !.target_sample_rate = NearestRate(audio.sample_rate)]
    /\ pc' = "conv_rate"
    /\ ConvertFrame

\* lines 120-128: resample when the rates differ. A request for 0 samples
\* either raises inside signal.resample or leaves an empty array.
Resample ==
    /\ pc = "conv_rate"
    /\ IF audio.sample_rate = audio.target_sample_rate
       THEN /\ pc' = "conv_resampled"
            /\ UNCHANGED audio
       ELSE LET num == NumSamples(Len(audio.data), audio.target_sample_rate,
                                  audio.sample_rate)
            IN \/ /\ num = 0
                  /\ ConvertFails("resample")
               \/ /\ \E resampled \in Resampled(audio.data, num, audio.columns) :
                        audio' = [audio EXCEPT !.num_samples = num,
                                               !.data = resampled]
                  /\ pc' = "conv_resampled"
    /\ ConvertFrame

\* lines 130-132 (local, macOS, GUI): the channels are kept;
\* lines 217-220 (remote share): more than one channel is averaged to one
KeepOrMixChannels ==
    /\ pc = "conv_resampled"
    /\ audio' = IF variant = "remote" /\ audio.current_channels > 1
                THEN [audio EXCEPT !.data = MeanOverColumns(audio.data),
                                   !.den = audio.den * audio.columns,
                                   !.columns = 1]
                ELSE audio
    /\ pc' = "conv_mixed"
    /\ ConvertFrame

\* lines 134-136: scale to a peak of 0.95 unless the peak is 0; np.max raises
\* on an empty array
Normalize ==
    /\ pc = "conv_mixed"
    /\ IF audio.data = <<>>
       THEN ConvertFails("normalize")
       ELSE /\ audio' = IF Peak(audio.data) > 0
                        THEN [audio EXCEPT !.data = Scaled(audio.data),
                                           !.den = Peak(audio.data) * HeadroomDen]
                        ELSE audio
            /\ pc' = "conv_normalized"
    /\ ConvertFrame

\* line 139: data_16bit = (data * 32767).astype(np.int16)
Quantize ==
    /\ pc = "conv_normalized"
    /\ audio' = [audio EXCEPT !.data_16bit =
                    [i \in 1..Len(audio.data) |->
                        [j \in DOMAIN audio.data[i] |->
                            ToInt16(audio.data[i][j], audio.den)]]]
    /\ pc' = "conv_quantized"
    /\ ConvertFrame

\* line 142: sf.write(output_path, data_16bit, target_sample_rate), which may
\* fail
WriteWav ==
    /\ pc = "conv_quantized"
    /\ \E ok \in BOOLEAN :
        IF ok
        THEN /\ audio' = [audio EXCEPT !.out_rate = audio.target_sample_rate,
                                       !.out_channels = audio.columns]
             /\ pc' = "conv_written"
        ELSE ConvertFails("write")
    /\ ConvertFrame

InitConv ==
    /\ variant \in {"local", "remote"}
    /\ source_root = "dir"
    /\ pc = "conv_read"
    /\ stack = <<>>
    /\ result = "none"
    /\ session = "none"
    /\ released = 0
    /\ last = NoFrameLog
    /\ touched = FALSE
    /\ is_processing = FALSE
    /\ arg_name = <<>>
    /\ arg_counter = 0
    /\ norm_out = <<>>
    /\ temp_files = {}
    /\ checked = "none"
    /\ after_stop = NoneAfterStop
    /\ mirror = NoMirror
    /\ temp_dir = FALSE
    /\ gui = GuiIdle
    /\ \E rate \in SampleRates, c \in ChannelCounts, n \in 0..MaxFrames :
          audio \in {ReadAudio(rate, c, data) : data \in Arrays(n, c)}

NextConv ==
    \/ SelectRate
    \/ Resample
    \/ KeepOrMixChannels
    \/ Normalize
    \/ Quantize
    \/ WriteWav

SpecConv == InitConv /\ [][NextConv]_vars

----------------------------------------------------------------------------
(* The source tree the mirror walks *)

\* '.wav', the qualifying extension
DotWav == <<".", "w", "a", "v">>

TWav == <<"t", ".", "w", "a", "v">>
\* "t_.WAV": the extension is in upper case
TUnderscoreWav == <<"t", "_", ".", "W", "A", "V">>
TNumberedWav == <<"t", "_", "0", "0", "1", ".", "w", "a", "v">>
NotesTxt == <<"n", ".", "t", "x", "t">>
SubDir == <<"d">>
\* "d_", a second directory whose normalised name is "d"
SubDirUnderscore == <<"d", "_">>

\* the files and the directories a listing may hold
FileNames == {TWav, TUnderscoreWav, TNumberedWav, NotesTxt}
DirNames == {SubDir}

\* a filter that lets every file through
IsWavLocal_AnyFile(name) == TRUE

\* item.suffix.lower() == '.wav'
IsWavLocal(name) == Extension(name) = DotWav

\* name.lower().endswith('.wav')
IsWavSmb(name) ==
    /\ Len(name) >= Len(DotWav)
    /\ LowerStr(SubSeq(name, Len(name) - Len(DotWav) + 1, Len(name))) = DotWav

LocalFamily == {"local", "macos_local", "macos_smb", "gui"}

\* how entering a subdirectory goes: its target cannot be created, it cannot
\* be listed, or it is listed and holds n entries
DirOutcomes(list_fault) ==
    {[kind |-> "mkdir_failed", n |-> 0], [kind |-> list_fault, n |-> 0]}
        \cup {[kind |-> "listed", n |-> k] : k \in 0..MaxEntries}

\* one call of process_directory: the directory's raw and normalised name, the
\* length of its listing, how many entries the loop has met and which, the
\* file counter, the files the call has written, and its failed conversions
NewFrame(name, dst_name, n) ==
    [name |-> name, dst_name |-> dst_name, n |-> n, i |-> 0, seen |-> {},
     file_counter |-> 0, outs |-> <<>>, fails |-> 0]

Top == stack[Len(stack)]
SetTop(stk, f) == [stk EXCEPT ![Len(stk)] = f]
\* a return that hands the callee's counter to its caller
Pop_LeaksCounter(stk) ==
    IF Len(stk) >= 2
    THEN [SubSeq(stk, 1, Len(stk) - 1) EXCEPT
            ![Len(stk) - 1].file_counter = stk[Len(stk)].file_counter]
    ELSE <<>>

Pop(stk) == SubSeq(stk, 1, Len(stk) - 1)

\* the loop takes the next entry, which is named name
Advance(f, name) == [f EXCEPT !.i = @ + 1, !.seen = @ \cup {name}]

LogLine(op, left) == [op |-> op, depth |-> Len(stack), left |-> left]

\* the loop of the innermost call has an entry left and may take it; the GUI
\* worker has passed the check at the top of the loop body
CanIterate ==
    /\ pc = "running"
    /\ stack # <<>>
    /\ Top.i < Top.n
    /\ variant = "gui" => checked = "loop"

\* the directory branch may create and list the subdirectory; the GUI worker
\* has passed the check at the entry of the recursive call
CanEnterSubdirectory ==
    /\ pc = "running"
    /\ stack # <<>>
    /\ Top.i < Top.n
    /\ variant = "gui" => checked = "entry"

\* what the worker has done since the flag was cleared, after one more step
CountAfterStop(written, listed) ==
    IF variant = "gui" /\ ~is_processing
    THEN [written |-> after_stop.written + written,
          listed |-> after_stop.listed + listed]
    ELSE after_stop

\* the outermost call returned: the entry point goes on to its return
AfterUnwind(stk, outcome) ==
    /\ stack' = stk
    /\ pc' = IF stk = <<>> THEN "finally" ELSE "running"
    /\ result' = IF stk = <<>> THEN outcome ELSE result

\* what run_processing reports when process_directory is back
RunOutcome ==
    IF variant = "gui" /\ ~is_processing THEN "stopped" ELSE "success"

----------------------------------------------------------------------------
(* process_directory of the local, macOS and GUI front ends *)

\* a .wav branch that forgets to advance the counter
FrameAfterWav_NoIncrement(f, name, ok) ==
    LET normalized_name == normalize_name(name, f.file_counter)
        g == Advance(f, name)
    IN IF ok
       THEN [g EXCEPT !.outs = Append(@, [src |-> name, dst |-> normalized_name,
                                          counter |-> f.file_counter])]
       ELSE [g EXCEPT !.fails = @ + 1]

\* a .wav branch that advances the counter for a failed conversion too
FrameAfterWav_CountsFailures(f, name, ok) ==
    LET normalized_name == normalize_name(name, f.file_counter)
        g == Advance(f, name)
    IN IF ok
       THEN [g EXCEPT !.outs = Append(@, [src |-> name, dst |-> normalized_name,
                                          counter |-> f.file_counter]),
                      !.file_counter = @ + 1]
       ELSE [g EXCEPT !.fails = @ + 1, !.file_counter = @ + 1]

\* the frame after the .wav branch: on success the file is written under the
\* name for the current counter and the counter grows
FrameAfterWav(f, name, ok) ==
    LET normalized_name == normalize_name(name, f.file_counter)
        g == Advance(f, name)
    IN IF ok
       THEN [g EXCEPT !.outs = Append(@, [src |-> name, dst |-> normalized_name,
                                          counter |-> f.file_counter]),
                      !.file_counter = @ + 1]
       ELSE [g EXCEPT !.fails = @ + 1]

\* a failed conversion that escapes as an exception and ends the call
StackAfterWav_FailureEscapes(stk, name, ok) ==
    IF ok THEN SetTop(stk, FrameAfterWav(stk[Len(stk)], name, ok)) ELSE Pop(stk)

\* the call stack after the .wav branch: convert_audio_file returns False on
\* any failure, and the loop goes on
StackAfterWav(stk, name, ok) ==
    SetTop(stk, FrameAfterWav(stk[Len(stk)], name, ok))

ProcessWavFile ==
    /\ CanIterate
    /\ variant \in LocalFamily
    /\ \E name \in FileNames \ Top.seen, ok \in BOOLEAN :
        /\ IsWavLocal(name)
        /\ AfterUnwind(StackAfterWav(stack, name, ok), RunOutcome)
        /\ last' = LogLine(IF ok THEN "converted" ELSE "convert_failed", 0)
        /\ after_stop' = CountAfterStop(IF ok THEN 1 ELSE 0, 0)
    /\ touched' = TRUE
    /\ checked' = "none"
    /\ UNCHANGED <<variant, source_root, session, released, is_processing,
                   arg_name, arg_counter, norm_out, temp_files, audio,
                   mirror, temp_dir, gui>>

SkipOtherFile ==
    /\ CanIterate
    /\ variant \in LocalFamily
    /\ \E name \in FileNames \ Top.seen :
        /\ ~IsWavLocal(name)
        /\ stack' = SetTop(stack, Advance(Top, name))
    /\ last' = LogLine("skipped", 0)
    /\ touched' = TRUE
    /\ checked' = "none"
    /\ UNCHANGED <<variant, source_root, pc, result, session, released,
                   is_processing, arg_name, arg_counter, norm_out,
                   temp_files, after_stop, audio, mirror, temp_dir, gui>>

\* the call stack after the directory branch. The callee creates its target
\* before its own try: a failure there is raised into the caller's try, whose
\* handler logs it and returns. A listing that fails is caught by the callee.
StackAfterSubdir(stk, name, outcome) ==
    LET parent == Advance(stk[Len(stk)], name)
    IN CASE outcome.kind = "mkdir_failed" -> Pop(stk)
         [] outcome.kind = "list_denied" -> SetTop(stk, parent)
         [] OTHER -> Append(SetTop(stk, parent),
                            NewFrame(name, normalize_name(name, 0), outcome.n))

ProcessSubdirectory ==
    /\ CanEnterSubdirectory
    /\ variant \in LocalFamily
    /\ Len(stack) <= MaxDepth
    /\ \E name \in DirNames \ Top.seen, outcome \in DirOutcomes("list_denied") :
        /\ AfterUnwind(StackAfterSubdir(stack, name, outcome), RunOutcome)
        /\ last' = CASE outcome.kind = "mkdir_failed"
                          -> LogLine("mkdir_failed", Top.n - (Top.i + 1))
                     [] outcome.kind = "list_denied" -> LogLine("list_denied", 0)
                     [] OTHER -> LogLine("dir_entered", 0)
        /\ after_stop' = CountAfterStop(0, IF outcome.kind = "listed" THEN 1 ELSE 0)
    /\ touched' = TRUE
    /\ checked' = "none"
    /\ UNCHANGED <<variant, source_root, session, released, is_processing,
                   arg_name, arg_counter, norm_out, temp_files, audio,
                   mirror, temp_dir, gui>>

\* the loop is exhausted: the call returns to its caller
ReturnFromDirectory ==
    /\ pc = "running"
    /\ stack # <<>>
    /\ Top.i = Top.n
    /\ AfterUnwind(Pop(stack), RunOutcome)
    /\ last' = LogLine("returned", 0)
    /\ UNCHANGED <<variant, source_root, session, released, touched,
                   is_processing, arg_name, arg_counter, norm_out,
                   temp_files, checked, after_stop, audio, mirror, temp_dir, gui>>

\* a loop that never looks at the flag
LoopCheckPasses_Always == TRUE

\* GUI: the check at the top of the loop body, if not self.is_processing: break
LoopCheckPasses == is_processing

\* GUI: the worker finds the flag set at the top of the loop body and goes on
\* to the entry
GuiPassLoopCheck ==
    /\ variant = "gui"
    /\ pc = "running"
    /\ stack # <<>>
    /\ Top.i < Top.n
    /\ checked = "none"
    /\ LoopCheckPasses
    /\ checked' = "loop"
    /\ UNCHANGED <<variant, source_root, pc, stack, result, session, released,
                   last, touched, is_processing, arg_name, arg_counter,
                   norm_out, temp_files, after_stop, audio, mirror, temp_dir, gui>>

\* GUI: the directory branch calls process_directory, which looks at the flag
\* first: cleared, the call returns at once and the loop goes on; set, the
\* call goes on to create and list the subdirectory
GuiCallSubdirectory ==
    /\ variant = "gui"
    /\ CanIterate
    /\ Len(stack) <= MaxDepth
    /\ \E name \in DirNames \ Top.seen :
        IF is_processing
        THEN /\ checked' = "entry"
             /\ UNCHANGED <<stack, last>>
        ELSE /\ checked' = "none"
             /\ stack' = SetTop(stack, Advance(Top, name))
             /\ last' = LogLine("dir_not_entered", 0)
    /\ UNCHANGED <<variant, source_root, pc, result, session, released,
                   touched, is_processing, arg_name, arg_counter,
                   norm_out, temp_files, after_stop, audio, mirror, temp_dir, gui>>

\* GUI: the stop button, enabled from start_processing to
\* processing_finished, clears the flag from the main thread
StopProcessing ==
    /\ variant = "gui"
    /\ gui.stop_button = "normal"
    /\ is_processing
    /\ is_processing' = FALSE
    /\ UNCHANGED <<variant, source_root, pc, stack, result, session, released,
                   last, touched, arg_name, arg_counter, norm_out,
                   temp_files, checked, after_stop, audio, mirror, temp_dir, gui>>

\* GUI: the loop finds the flag cleared and breaks
BreakOnStop ==
    /\ variant = "gui"
    /\ pc = "running"
    /\ stack # <<>>
    /\ Top.i < Top.n
    /\ checked = "none"
    /\ ~LoopCheckPasses
    /\ AfterUnwind(Pop(stack), RunOutcome)
    /\ last' = LogLine("stopped", Top.n - Top.i)
    /\ UNCHANGED <<variant, source_root, session, released, touched,
                   is_processing, arg_name, arg_counter, norm_out,
                   temp_files, checked, after_stop, audio, mirror, temp_dir, gui>>

----------------------------------------------------------------------------
(* process_directory of the remote-share front end *)

\* the frame after the .wav branch: the file is staged, converted and written
\* under normalize_name(name), which has no counter
SmbFrameAfterWav(f, name, downloaded, ok) ==
    LET normalized_name == normalize_name_smb(name)
        g == Advance(f, name)
    IN IF downloaded /\ ok
       THEN [g EXCEPT !.outs = Append(@, [src |-> name, dst |-> normalized_name,
                                          counter |-> 0])]
       ELSE [g EXCEPT !.fails = @ + 1]

\* the staging directory after the attempt on one file: open() creates the
\* copy before retrieveFile runs, and only the branch of a successful
\* download unlinks it
TempAfterWav(temp, name, created, downloaded) ==
    IF downloaded THEN temp \ {name}
    ELSE IF created THEN temp \cup {name}
    ELSE temp

SmbProcessWavFile ==
    /\ CanIterate
    /\ variant = "remote"
    /\ \E name \in FileNames \ Top.seen, created \in BOOLEAN,
          downloaded \in BOOLEAN, ok \in BOOLEAN :
        /\ IsWavSmb(name)
        /\ downloaded => created
        /\ downloaded \/ ~ok
        /\ stack' = SetTop(stack, SmbFrameAfterWav(Top, name, downloaded, ok))
        /\ last' = LogLine(IF ~downloaded THEN "download_failed"
                           ELSE IF ok THEN "converted" ELSE "convert_failed", 0)
        /\ temp_files' = TempAfterWav(temp_files, name, created, downloaded)
    /\ touched' = TRUE
    /\ UNCHANGED <<variant, source_root, pc, result, session, released,
                   is_processing, arg_name, arg_counter, norm_out,
                   checked, after_stop, audio, mirror, temp_dir, gui>>

SmbSkipOtherFile ==
    /\ CanIterate
    /\ variant = "remote"
    /\ \E name \in FileNames \ Top.seen :
        /\ ~IsWavSmb(name)
        /\ stack' = SetTop(stack, Advance(Top, name))
    /\ last' = LogLine("skipped", 0)
    /\ touched' = TRUE
    /\ UNCHANGED <<variant, source_root, pc, result, session, released,
                   is_processing, arg_name, arg_counter, norm_out,
                   temp_files, checked, after_stop, audio, mirror, temp_dir, gui>>

\* the call stack after the directory branch. The caller creates the target
\* itself, in no try: a failure there leaves every active call. A listing that
\* fails is caught by get_smb_file_list, which returns no entries.
SmbStackAfterSubdir(stk, name, outcome) ==
    LET parent == Advance(stk[Len(stk)], name)
    IN CASE outcome.kind = "mkdir_failed" -> <<>>
         [] OTHER -> Append(SetTop(stk, parent),
                            NewFrame(name, normalize_name_smb(name), outcome.n))

SmbProcessSubdirectory ==
    /\ CanIterate
    /\ variant = "remote"
    /\ Len(stack) <= MaxDepth
    /\ \E name \in DirNames \ Top.seen, outcome \in DirOutcomes("list_failed") :
        /\ AfterUnwind(SmbStackAfterSubdir(stack, name, outcome), "failed")
        /\ last' = CASE outcome.kind = "mkdir_failed"
                          -> LogLine("mkdir_failed", Top.n - (Top.i + 1))
                     [] outcome.kind = "list_failed" -> LogLine("list_failed", 0)
                     [] OTHER -> LogLine("dir_entered", 0)
    /\ touched' = TRUE
    /\ UNCHANGED <<variant, source_root, session, released, is_processing,
                   arg_name, arg_counter, norm_out, temp_files,
                   checked, after_stop, audio, mirror, temp_dir, gui>>

----------------------------------------------------------------------------
(* The run entry points *)

\* the entry point returns at once, through no finally clause
ReturnAtOnce(outcome) ==
    /\ pc' = "done"
    /\ result' = outcome
    /\ stack' = <<>>

\* the entry point leaves its try block with nothing on the call stack
LeaveTry(outcome) ==
    /\ pc' = "finally"
    /\ result' = outcome
    /\ stack' = <<>>

\* the entry point calls process_directory on the root, whose listing has n entries
EnterRoot(n) ==
    /\ pc' = "running"
    /\ result' = result
    /\ stack' = <<NewFrame(<<>>, <<>>, n)>>

\* run_automation (local), run_automation_local (macOS), run_processing (GUI):
\* the source must exist and be a directory, the target root is created, and
\* the root is processed; process_directory catches a failing root listing.
RunLocal ==
    /\ pc = "start"
    /\ variant \in {"local", "macos_local", "gui"}
    /\ \E target_created \in BOOLEAN, n \in 0..MaxEntries :
        CASE source_root \in {"missing", "not_dir"} -> LeaveTry("failed")
          [] ~target_created -> LeaveTry("failed")
          [] variant = "gui" /\ ~is_processing -> LeaveTry("stopped")
          [] source_root = "unlistable" -> LeaveTry("success")
          [] OTHER -> EnterRoot(n)
    /\ last' = LogLine("run", 0)
    /\ UNCHANGED <<variant, source_root, session, released, touched,
                   is_processing, arg_name, arg_counter, norm_out,
                   temp_files, checked, after_stop, audio, mirror, temp_dir, gui>>

\* run_automation_with_smb (macOS): the share is mounted, the source must
\* exist under the mount point, the target root is created, the root is
\* processed; the finally clause unmounts when mount_smb_share gave a path.
RunWithSmbMount ==
    /\ pc = "start"
    /\ variant = "macos_smb"
    /\ \E mount \in {"failed", "mounted_elsewhere", "mounted"},
          target_created \in BOOLEAN, n \in 0..MaxEntries :
        CASE mount = "failed" -> ReturnAtOnce("failed") /\ session' = "none"
          [] mount = "mounted_elsewhere" -> ReturnAtOnce("failed") /\ session' = "held"
          [] source_root = "missing" -> LeaveTry("failed") /\ session' = "held"
          [] ~target_created -> LeaveTry("failed") /\ session' = "held"
          [] source_root \in {"not_dir", "unlistable"}
                -> LeaveTry("success") /\ session' = "held"
          [] OTHER -> EnterRoot(n) /\ session' = "held"
    /\ last' = LogLine("run", 0)
    /\ UNCHANGED <<variant, source_root, released, touched, is_processing,
                   arg_name, arg_counter, norm_out, temp_files,
                   checked, after_stop, audio, mirror, temp_dir, gui>>

\* run_automation (remote share): the session is opened, the target root and
\* then the staging directory temp_roland_processing are created, the root
\* is processed; get_smb_file_list turns a failing root listing into an
\* empty one.
RunRemote ==
    /\ pc = "start"
    /\ variant = "remote"
    /\ \E connect \in {"raised", "refused", "connected"},
          target_created \in BOOLEAN, temp_created \in BOOLEAN,
          n \in 0..MaxEntries :
        /\ CASE connect # "connected" -> ReturnAtOnce("failed") /\ session' = "none"
              [] ~target_created -> LeaveTry("failed") /\ session' = "held"
              [] ~temp_created -> LeaveTry("failed") /\ session' = "held"
              [] source_root # "dir" -> EnterRoot(0) /\ session' = "held"
              [] OTHER -> EnterRoot(n) /\ session' = "held"
        /\ temp_dir' = (connect = "connected" /\ target_created /\ temp_created)
    /\ last' = LogLine("run", 0)
    /\ UNCHANGED <<variant, source_root, released, touched, is_processing,
                   arg_name, arg_counter, norm_out, temp_files,
                   checked, after_stop, audio, mirror, gui>>

\* a finally clause that unlocks the interface only after a success
FinishedCallbacks_OnlyOnSuccess(outcome) == IF outcome = "success" THEN 1 ELSE 0

\* GUI: how many processing_finished callbacks the finally clause of
\* run_processing queues: one root.after call, whatever the outcome
FinishedCallbacks(outcome) == 1

\* GUI: the finally clause of run_processing queues processing_finished for
\* the main thread; it is the worker's last statement, and the thread ends
AfterWorker(g, outcome) ==
    [g EXCEPT !.workers = @ - 1,
              !.pending = @ + FinishedCallbacks(outcome),
              !.scheduled = @ + FinishedCallbacks(outcome)]

\* the local, macOS-local and GUI entry points hold no session; the GUI's
\* worker queues processing_finished
FinishLocal ==
    /\ pc = "finally"
    /\ variant \in {"local", "macos_local", "gui"}
    /\ pc' = "done"
    /\ gui' = IF variant = "gui" THEN AfterWorker(gui, result) ELSE gui
    /\ UNCHANGED <<variant, source_root, stack, result, session, released,
                   last, touched, is_processing, arg_name, arg_counter,
                   norm_out, temp_files, checked, after_stop, audio,
                   mirror, temp_dir>>

\* finally of run_automation_with_smb: unmount_smb_share runs umount and
\* only logs a warning when it fails
UnmountShare ==
    /\ pc = "finally"
    /\ variant = "macos_smb"
    /\ \E unmounted \in BOOLEAN :
        session' = IF unmounted THEN "released" ELSE "held"
    /\ released' = released + 1
    /\ pc' = "done"
    /\ UNCHANGED <<variant, source_root, stack, result, last, touched,
                   is_processing, arg_name, arg_counter, norm_out,
                   temp_files, checked, after_stop, audio, mirror, temp_dir, gui>>

\* finally of run_automation (remote share): disconnect_smb closes the
\* connection, then shutil.rmtree removes the staging directory; an exception
\* of close() or of rmtree leaves the finally clause and the run
DisconnectSmb ==
    /\ pc = "finally"
    /\ variant = "remote"
    /\ \E close \in {"closed", "raised_open", "raised_closed"},
          removed \in BOOLEAN :
        /\ close # "closed" => removed
        /\ session' = IF close = "raised_open" THEN "held" ELSE "released"
        /\ result' = IF close = "closed" /\ removed THEN result ELSE "raised"
        /\ temp_files' = IF close = "closed" /\ removed THEN {} ELSE temp_files
        /\ temp_dir' = IF close = "closed" /\ removed THEN FALSE ELSE temp_dir
    /\ released' = released + 1
    /\ pc' = "done"
    /\ UNCHANGED <<variant, source_root, stack, last, touched, is_processing,
                   arg_name, arg_counter, norm_out, checked,
                   after_stop, audio, mirror, gui>>

----------------------------------------------------------------------------
(* Spec: one run of one front end over a source tree *)

Init ==
    /\ variant \in {"local", "macos_local", "macos_smb", "gui", "remote"}
    /\ source_root \in {"dir", "missing", "not_dir", "unlistable"}
    /\ pc = "start"
    /\ stack = <<>>
    /\ result = "none"
    /\ session = "none"
    /\ released = 0
    /\ last = NoFrameLog
    /\ touched = FALSE
    /\ is_processing = (variant = "gui")
    /\ arg_name = <<>>
    /\ arg_counter = 0
    /\ norm_out = <<>>
    /\ temp_files = {}
    /\ checked = "none"
    /\ after_stop = NoneAfterStop
    /\ audio = NoAudio
    /\ mirror = NoMirror
    /\ temp_dir = FALSE
    /\ gui = IF variant = "gui" THEN AfterStart(GuiIdle) ELSE GuiIdle

Next ==
    \/ RunLocal
    \/ RunWithSmbMount
    \/ RunRemote
    \/ ProcessWavFile
    \/ SkipOtherFile
    \/ ProcessSubdirectory
    \/ ReturnFromDirectory
    \/ GuiPassLoopCheck
    \/ GuiCallSubdirectory
    \/ StopProcessing
    \/ BreakOnStop
    \/ SmbProcessWavFile
    \/ SmbSkipOtherFile
    \/ SmbProcessSubdirectory
    \/ FinishLocal
    \/ UnmountShare
    \/ DisconnectSmb

Spec == Init /\ [][Next]_vars

----------------------------------------------------------------------------
(* SpecGui: the GUI's main thread and its worker over any number of runs *)

\* a Start button that can always be pressed
StartEnabled_Always == TRUE

\* Tk runs the command of a button only while the button is not disabled
StartEnabled == gui.start_button = "normal"

\* start_processing: with a field empty or the source absent it shows an error
\* and returns; else it sets the flag, locks the interface and starts the
\* worker, which begins run_processing with fresh locals. What the worker
\* finds at the source is looked up later, by the worker.
StartProcessing ==
    /\ variant = "gui"
    /\ StartEnabled
    /\ \E accepted \in BOOLEAN,
          found \in {"dir", "missing", "not_dir", "unlistable"} :
        IF accepted
        THEN /\ is_processing' = TRUE
             /\ gui' = [AfterStart(gui) EXCEPT !.restarted = @ \/ result # "none"]
             /\ source_root' = found
             /\ pc' = "start"
             /\ stack' = <<>>
             /\ result' = "none"
             /\ last' = NoFrameLog
             /\ touched' = FALSE
             /\ checked' = "none"
             /\ after_stop' = NoneAfterStop
             /\ UNCHANGED <<variant, session, released, arg_name, arg_counter,
                            norm_out, temp_files, audio, mirror, temp_dir>>
        ELSE UNCHANGED vars

\* processing_finished, run by the main loop for a queued callback: the flag
\* is cleared, Start is enabled and Stop is disabled
ProcessingFinished ==
    /\ variant = "gui"
    /\ gui.pending > 0
    /\ is_processing' = FALSE
    /\ gui' = [gui EXCEPT !.start_button = "normal", !.stop_button = "disabled",
                          !.pending = @ - 1]
    /\ pc' = IF gui.workers = 0 THEN "idle" ELSE pc
    /\ UNCHANGED <<variant, source_root, stack, result, session, released,
                   last, touched, arg_name, arg_counter, norm_out,
                   temp_files, checked, after_stop, audio, mirror, temp_dir>>

InitGui ==
    /\ variant = "gui"
    /\ source_root = "dir"
    /\ pc = "idle"
    /\ stack = <<>>
    /\ result = "none"
    /\ session = "none"
    /\ released = 0
    /\ last = NoFrameLog
    /\ touched = FALSE
    /\ is_processing = FALSE
    /\ arg_name = <<>>
    /\ arg_counter = 0
    /\ norm_out = <<>>
    /\ temp_files = {}
    /\ checked = "none"
    /\ after_stop = NoneAfterStop
    /\ audio = NoAudio
    /\ mirror = NoMirror
    /\ temp_dir = FALSE
    /\ gui = GuiIdle

\* the steps of the worker thread, from the start of run_processing to its
\* finally clause
WorkerStep ==
    \/ RunLocal
    \/ GuiPassLoopCheck
    \/ ProcessWavFile
    \/ SkipOtherFile
    \/ GuiCallSubdirectory
    \/ ProcessSubdirectory
    \/ ReturnFromDirectory
    \/ BreakOnStop
    \/ FinishLocal

NextGui ==
    \/ StartProcessing
    \/ StopProcessing
    \/ WorkerStep
    \/ ProcessingFinished

SpecGui == InitGui /\ [][NextGui]_vars

\* the worker thread keeps being scheduled, and the main loop keeps running
\* the callbacks queued with root.after
SpecGuiLive ==
    InitGui /\ [][NextGui]_vars /\ WF_vars(WorkerStep) /\ WF_vars(ProcessingFinished)

----------------------------------------------------------------------------
(* Repeated runs of the local mirror into one destination *)

(* The source is an explicit tree: a listing is a sequence of entries, an   *)
(* entry a name, whether it is a directory, and the listing below it. The   *)
(* destination is a set of paths, each a directory or a file; a path is the *)
(* sequence of the normalised names from the destination root.              *)

MaxRuns == 2

\* a file entry
FileEntry(name) == [name |-> name, is_dir |-> FALSE, children |-> <<>>]

\* a directory entry holding the listing children
DirEntry(name, children) == [name |-> name, is_dir |-> TRUE, children |-> children]

\* the listings of files only, of at most one entry
LeafListings == {<<>>} \cup {<<FileEntry(f)>> : f \in FileNames}

\* the entries of the root: the files, and directories named "d", "d_" and
\* "t.wav"
RootEntries ==
    {FileEntry(f) : f \in FileNames}
        \cup {DirEntry(d, c) : d \in {SubDir, SubDirUnderscore, TWav},
                               c \in LeafListings}

\* the listings of the root: at most MaxEntries entries of different names
RootListings ==
    {l \in UNION {[1..n -> RootEntries] : n \in 0..MaxEntries} :
        \A i \in 1..Len(l) : \A j \in 1..Len(l) : i # j => l[i].name # l[j].name}

DirAt(path) == [path |-> path, kind |-> "dir"]
FileAt(path) == [path |-> path, kind |-> "file"]

\* a mkdir that fails on anything that exists
MkdirSucceeds_NoExistOk(dest, path) ==
    DirAt(path) \notin dest /\ FileAt(path) \notin dest

\* mkdir(parents=True, exist_ok=True): fails only when path is a file
MkdirSucceeds(dest, path) == FileAt(path) \notin dest

\* sf.write to path: fails when path is a directory
WriteSucceeds(dest, path) == DirAt(path) \notin dest

RECURSIVE ProcessTree(_, _, _, _)
RECURSIVE ProcessEntries(_, _, _, _, _, _)

\* process_directory(source, target) on the listing entries and the target
\* path: mkdir comes first and raises to the caller; st is the destination,
\* the paths this run has produced, the target directories it has been
\* called on more than once, and whether an exception is on its way up
ProcessTree(entries, path, bad, st) ==
    IF ~MkdirSucceeds(st.dest, path)
    THEN [st EXCEPT !.raised = TRUE]
    ELSE ProcessEntries(entries, 1, 0, path, bad,
                        [st EXCEPT !.dest = @ \cup {DirAt(path)},
                                   !.produced = @ \cup {path},
                                   !.shared = IF path \in st.produced
                                              THEN @ \cup {path} ELSE @])

\* the loop of process_directory from entry i on, with file_counter
ProcessEntries(entries, i, file_counter, path, bad, st) ==
    IF i > Len(entries) THEN st
    ELSE LET item == entries[i]
             out == Append(path, normalize_name(item.name, file_counter))
             sub == Append(path, normalize_name(item.name, 0))
             below == ProcessTree(item.children, sub, bad, st)
         IN CASE item.is_dir ->
                    IF below.raised THEN [below EXCEPT !.raised = FALSE]
                    ELSE ProcessEntries(entries, i + 1, file_counter, path, bad, below)
              [] ~item.is_dir /\ ~IsWavLocal(item.name) ->
                    ProcessEntries(entries, i + 1, file_counter, path, bad, st)
              [] OTHER ->
                    IF item.name \notin bad /\ WriteSucceeds(st.dest, out)
                    THEN ProcessEntries(entries, i + 1, file_counter + 1, path, bad,
                                        [st EXCEPT !.dest = @ \cup {FileAt(out)},
                                                   !.produced = @ \cup {out}])
                    ELSE ProcessEntries(entries, i + 1, file_counter, path, bad, st)

\* run_automation on an existing source directory: the target root is
\* created, the root is processed, and an exception that reaches the entry
\* point makes the run return False
RunMirror(tree, bad, dest) ==
    LET start == [dest |-> dest, produced |-> {}, shared |-> {},
                  raised |-> FALSE]
        end == IF MkdirSucceeds(dest, <<>>)
               THEN ProcessTree(tree, <<>>, bad,
                                [start EXCEPT !.dest = @ \cup {DirAt(<<>>)}])
               ELSE [start EXCEPT !.raised = TRUE]
    IN [dest |-> end.dest, produced |-> end.produced, shared |-> end.shared,
        result |-> IF end.raised THEN "failed" ELSE "success"]

InitRerun ==
    /\ variant = "local"
    /\ source_root = "dir"
    /\ pc = "rerun"
    /\ stack = <<>>
    /\ result = "none"
    /\ session = "none"
    /\ released = 0
    /\ last = NoFrameLog
    /\ touched = FALSE
    /\ is_processing = FALSE
    /\ arg_name = <<>>
    /\ arg_counter = 0
    /\ norm_out = <<>>
    /\ temp_files = {}
    /\ checked = "none"
    /\ after_stop = NoneAfterStop
    /\ audio = NoAudio
    /\ \E tree \in RootListings, bad \in {{}, {TWav}} :
          mirror = [run |-> 0, tree |-> tree, bad |-> bad, dest |-> {},
                    runs |-> <<>>]
    /\ temp_dir = FALSE
    /\ gui = GuiIdle

\* one more run over the same source into the destination as it is
RunAgain ==
    /\ pc = "rerun"
    /\ mirror.run < MaxRuns
    /\ LET done == RunMirror(mirror.tree, mirror.bad, mirror.dest)
       IN /\ mirror' = [mirror EXCEPT
                           !.run = @ + 1,
                           !.dest = done.dest,
                           !.runs = Append(@, done)]
          /\ result' = done.result
    /\ UNCHANGED <<variant, source_root, pc, stack, session, released, last,
                   touched, is_processing, arg_name, arg_counter, norm_out,
                   temp_files, checked, after_stop, audio, temp_dir, gui>>

NextRerun == RunAgain

SpecRerun == InitRerun /\ [][NextRerun]_vars

----------------------------------------------------------------------------
(* Claims about normalize_name, checked under SpecNorm *)

Returned == pc = "norm_returned"

\* ^[a-zA-Z0-9_]+(\.[a-z0-9]+)?$
MatchesCharset(s) ==
    LET dots == {i \in 1..Len(s) : s[i] = "."}
        p == CHOOSE i \in dots : \A j \in dots : i <= j
    IN IF dots = {}
       THEN s # <<>> /\ \A i \in 1..Len(s) : IsWordChar(s[i])
       ELSE /\ 1 < p /\ p < Len(s)
            /\ \A i \in 1..(p - 1) : IsWordChar(s[i])
            /\ \A i \in (p + 1)..Len(s) : s[i] \in AsciiLower \cup AsciiDigit

\* C1: for every raw name, the name returned for counter 0 is non-empty and
\* matches ^[a-zA-Z0-9_]+(\.[a-z0-9]+)?$.
C1_ResultMatchesCharset ==
    (Returned /\ arg_counter = 0) => MatchesCharset(norm_out)

UnnamedText == <<"u", "n", "n", "a", "m", "e", "d">>
Unnamed000 == UnnamedText \o <<"_", "0", "0", "0">>

\* the part of the returned name before its extension
ReturnedStem == SubSeq(norm_out, 1, Len(norm_out) - Len(Extension(arg_name)))
\* the part of the returned name from its extension on
ReturnedExtension ==
    SubSeq(norm_out, Len(norm_out) - Len(Extension(arg_name)) + 1, Len(norm_out))

EmptyStemCase == Returned /\ arg_counter = 0 /\ FilteredStem(arg_name) = <<>>

\* C2 as stated: when filtering leaves the stem empty and the counter is 0,
\* every variant returns the stem "unnamed" with no counter suffix, followed
\* by the lowercased extension.
C2_FallbackHasNoSuffix ==
    EmptyStemCase =>
        /\ ReturnedStem = UnnamedText
        /\ ReturnedExtension = Extension(arg_name)

\* C2 amended: when filtering leaves the stem empty and the counter is 0, the
\* remote-share normalize_name returns "unnamed" and the local, macOS and GUI
\* normalize_name return "unnamed_000", each followed by the lowercased
\* extension; "Кириллица_файл.wav" gives "unnamed_000.wav" in the latter.
C2_FallbackPerVariant ==
    EmptyStemCase =>
        /\ ReturnedStem = IF variant = "remote" THEN UnnamedText ELSE Unnamed000
        /\ ReturnedExtension = Extension(arg_name)
        /\ (arg_name = CyrillicWav /\ variant # "remote")
               => norm_out = Unnamed000 \o DotWav
        /\ (arg_name = CyrillicWav /\ variant = "remote")
               => norm_out = UnnamedText \o DotWav

\* C2 witness: the Cyrillic example has been normalised with counter 0 by the
\* local front end.
C2_Witness ==
    EmptyStemCase /\ variant = "local" /\ arg_name = CyrillicWav

\* the number a string of decimal digits denotes
RECURSIVE DigitsValue(_)
DigitsValue(d) ==
    IF d = <<>> THEN 0
    ELSE 10 * DigitsValue(SubSeq(d, 1, Len(d) - 1))
         + (CHOOSE k \in 0..9 : DigitChars[k + 1] = d[Len(d)])

\* d writes n in decimal, zero-padded to at least 3 digits
IsPadded3(d, n) ==
    /\ Len(d) >= 3
    /\ \A i \in 1..Len(d) : d[i] \in AsciiDigit
    /\ DigitsValue(d) = n
    /\ Len(d) > 3 => d[1] # "0"

\* the filtered stem, or "unnamed" when it is empty
BaseStem == IF FilteredStem(arg_name) = <<>> THEN UnnamedText ELSE FilteredStem(arg_name)

\* C3: in the local, macOS and GUI normalize_name, for counter > 0 the result
\* is base + "_" + the counter zero-padded to at least 3 digits + extension,
\* base being the filtered stem or "unnamed"; for a non-empty filtered stem
\* and counter 0 no suffix is appended.
C3_CounterSuffix ==
    (Returned /\ variant # "remote") =>
        /\ ReturnedExtension = Extension(arg_name)
        /\ arg_counter > 0 =>
               \E k \in 3..Len(ReturnedStem) :
                   /\ Len(ReturnedStem) = Len(BaseStem) + 1 + k
                   /\ SubSeq(ReturnedStem, 1, Len(BaseStem)) = BaseStem
                   /\ ReturnedStem[Len(BaseStem) + 1] = "_"
                   /\ IsPadded3(SubSeq(ReturnedStem, Len(BaseStem) + 2,
                                       Len(ReturnedStem)), arg_counter)
        /\ (arg_counter = 0 /\ FilteredStem(arg_name) # <<>>)
               => ReturnedStem = FilteredStem(arg_name)

\* C3 witness: a name whose stem filters to nothing has been normalised with
\* a counter of four digits.
C3_Witness ==
    /\ Returned /\ variant = "local"
    /\ arg_counter = 1000 /\ FilteredStem(arg_name) = <<>>
    /\ Len(norm_out) >= 12

----------------------------------------------------------------------------
(* Claims about the mirror and the entry points, checked under Spec *)

\* the pairs of files one call has written, earlier one first
WrittenPairs ==
    {<<k, a, b>> \in (1..Len(stack)) \X (1..MaxEntries + 1) \X (1..MaxEntries + 1) :
        a < b /\ b <= Len(stack[k].outs)}

\* C4: in the local, macOS and GUI process_directory, two .wav files of one
\* directory that normalise to the same stem and both convert are written
\* under a strictly smaller and a strictly larger counter, hence under two
\* different names: "t.wav" then "t_001.wav" when they are the first two.
C4_SameStemGetsIncreasingCounters ==
    variant \in LocalFamily =>
        \A w \in WrittenPairs :
            LET first == stack[w[1]].outs[w[2]]
                second == stack[w[1]].outs[w[3]]
            IN FilteredStem(first.src) = FilteredStem(second.src) =>
                /\ first.counter < second.counter
                /\ first.dst # second.dst
                /\ (w[2] = 1 /\ w[3] = 2 /\ FilteredStem(first.src) = <<"t">>) =>
                       /\ first.dst = <<"t", ".", "w", "a", "v">>
                       /\ second.dst = <<"t", "_", "0", "0", "1", ".", "w", "a", "v">>

\* C4 witness: one call has converted "t.wav" and then "t_.wav", which share
\* the stem "t".
C4_Witness ==
    /\ variant = "gui"
    /\ stack # <<>>
    /\ Len(Top.outs) = 2
    /\ Top.outs[1].src = TWav
    /\ Top.outs[2].src = TUnderscoreWav

\* C5: within one process_directory call of the local, macOS or GUI front
\* end, the files that convert are written under pairwise distinct names.
C5_OutputsPairwiseDistinct ==
    variant \in LocalFamily =>
        \A w \in WrittenPairs :
            stack[w[1]].outs[w[2]].dst # stack[w[1]].outs[w[3]].dst

\* the innermost call is at the top of its loop with an entry left to take
AtLoopTop ==
    /\ pc = "running"
    /\ stack # <<>>
    /\ Top.i < Top.n
    /\ checked = "none"

\* a step in which the conversion or the download of one file failed
FileFaultStep ==
    /\ stack' # stack
    /\ last'.op \in {"convert_failed", "download_failed"}

\* C6: a failure while converting one file is a logged skip: the call that
\* met it stays active with the same counter and the same written files, its
\* callers are untouched, the run goes on, and when the listing has a later
\* entry the loop is ready to take it.
C6_FileFaultIsSkipped ==
    [][FileFaultStep =>
          /\ Len(stack') = Len(stack)
          /\ \A k \in 1..(Len(stack) - 1) : stack'[k] = stack[k]
          /\ Top'.i = Top.i + 1
          /\ Top'.n = Top.n
          /\ Top'.file_counter = Top.file_counter
          /\ Top'.outs = Top.outs
          /\ pc' = "running" /\ result' = result
          /\ (Top'.i < Top'.n) => AtLoopTop']_vars

\* C6 witness: a call with a failed conversion behind it has just converted a
\* later entry of the same directory.
C6_Witness ==
    /\ pc = "running"
    /\ stack # <<>>
    /\ Top.fails >= 1
    /\ last.op = "converted"
    /\ last.depth = Len(stack)
    /\ Len(stack) = 2

\* C7: in the local, macOS and GUI process_directory, when a subdirectory
\* fails (listing denied, or target not creatable) no entry that follows it in
\* the parent's listing is left unprocessed.
C7_SubdirFaultKeepsSiblings ==
    (variant \in LocalFamily /\ last.op \in {"mkdir_failed", "list_denied"})
        => last.left = 0

\* C8: once the traversal is under way, no fault of a file or of a
\* subdirectory makes the run return a failed result.
C8_FaultNeverFailsRun ==
    (pc \in {"finally", "done"} /\ touched) => result # "failed"

\* the source root does not exist or cannot be reached
RootUnreachable ==
    IF variant = "remote" THEN source_root # "dir"
    ELSE source_root \in {"missing", "not_dir"}

\* C9: a run whose source root does not exist or cannot be reached returns a
\* failed result, before any entry is processed (a run that ends by an
\* exception of its teardown returns nothing).
C9_UnreachableRootFailsRun ==
    (pc = "done" /\ RootUnreachable /\ result # "raised")
        => (result = "failed" /\ ~touched)

\* C10: in the remote-share runs, when the run is over every session or mount
\* it acquired has been released exactly once and none is still held.
C10_SessionReleasedOnce ==
    (pc = "done" /\ variant \in {"remote", "macos_smb"}) =>
        /\ session # "held"
        /\ session = "released" => released = 1

\* C11: in the remote-share process_directory, whenever the attempt on a
\* qualifying file is over (download and conversion succeeded, conversion
\* failed, or download failed) its staging copy no longer exists.
C11_StagingCopyRemoved ==
    (variant = "remote" /\ pc = "running") => temp_files = {}

\* the files every active call has written are still there after the step
OutputsKept ==
    \A k \in 1..Len(stack) :
        k <= Len(stack') =>
            /\ Len(stack'[k].outs) >= Len(stack[k].outs)
            /\ SubSeq(stack'[k].outs, 1, Len(stack[k].outs)) = stack[k].outs

\* C12 as stated: in the GUI, once cancellation has been requested the worker
\* writes at most one more output file and lists no further directory.
C12_NoListingAfterStop ==
    (variant = "gui" /\ ~is_processing) =>
        (after_stop.written <= 1 /\ after_stop.listed = 0)

\* C12 amended: in the GUI, once cancellation has been requested the worker
\* finishes at most the one operation whose check it had already passed: it
\* writes at most one more output file or lists at most one more directory,
\* never both, and every file already written stays in place.
C12_AtMostOneStepAfterStop ==
    /\ [](variant = "gui" /\ ~is_processing
            => after_stop.written + after_stop.listed <= 1)
    /\ [][(variant = "gui" /\ ~is_processing) => OutputsKept]_vars

\* C12 witness: a stopped GUI run whose worker wrote one file after the
\* request.
C12_Witness ==
    /\ variant = "gui"
    /\ result = "stopped"
    /\ after_stop.written = 1

\* the name ends in ".wav", whatever the case of its letters
EndsInDotWav(name) ==
    /\ Len(name) >= 4
    /\ name[Len(name) - 3] = "."
    /\ name[Len(name) - 2] \in {"w", "W"}
    /\ name[Len(name) - 1] \in {"a", "A"}
    /\ name[Len(name)] \in {"v", "V"}

\* C13: every file written to the destination is the conversion of a source
\* file whose name ends in ".wav" compared case-insensitively, and a step
\* that meets a file of another extension logs it, skips it and writes nothing.
C13_OnlyWavIsWritten ==
    /\ [](\A k \in 1..Len(stack) : \A j \in 1..Len(stack[k].outs) :
              EndsInDotWav(stack[k].outs[j].src))
    /\ [][\A name \in FileNames :
              (stack # <<>> /\ stack' # <<>> /\ Len(stack') = Len(stack)
               /\ name \in Top'.seen \ Top.seen /\ ~EndsInDotWav(name))
                  => (last'.op = "skipped" /\ Top'.outs = Top.outs)]_vars

\* C13 witness: one call has met "n.txt" and "t_.WAV" and has written the
\* second only.
C13_Witness ==
    /\ stack # <<>>
    /\ Top.seen = {NotesTxt, TUnderscoreWav}
    /\ Len(Top.outs) = 1
    /\ Top.outs[1].src = TUnderscoreWav

\* C18: every run ends by returning a result, the one that carries the
\* counts of converted, skipped and failed entries, and never by an exception
\* that escapes the run entry point.
C18_RunReturnsSummary ==
    pc = "done" => result \in {"success", "failed", "stopped"}

----------------------------------------------------------------------------
(* Claims about convert_audio_file, checked under SpecConv *)

\* the conversion has chosen its target rate
RateChosen ==
    pc \in {"conv_rate", "conv_resampled", "conv_mixed", "conv_normalized",
            "conv_quantized", "conv_written"}

\* C14: the output rate is the member of {44100, 48000} nearest to the input
\* rate, 44100 when the input is halfway (46050); the file is written at that
\* rate, and an input already at 44100 or 48000 keeps its rate and is not
\* resampled.
C14_NearestSupportedRate ==
    /\ [](RateChosen =>
            /\ audio.target_sample_rate \in {44100, 48000}
            /\ \A x \in {44100, 48000} :
                   Abs(audio.target_sample_rate - audio.sample_rate)
                       <= Abs(x - audio.sample_rate)
            /\ audio.sample_rate = 46050 => audio.target_sample_rate = 44100
            /\ audio.sample_rate \in {44100, 48000}
                   => audio.target_sample_rate = audio.sample_rate
            /\ pc = "conv_written" => audio.out_rate = audio.target_sample_rate)
    /\ [][(pc = "conv_rate" /\ audio.sample_rate \in {44100, 48000})
             => (pc' = "conv_resampled" /\ audio'.data = audio.data)]_vars

\* C14 witness: a file read at 46050 Hz has been written at 44100 Hz.
C14_Witness ==
    /\ pc = "conv_written"
    /\ audio.sample_rate = 46050
    /\ audio.out_rate = 44100

\* C15: the written file has as many channels as the input, in every variant.
C15_ChannelsPreserved ==
    pc = "conv_written" => audio.out_channels = audio.current_channels

\* the step that normalises an array whose peak is above zero
ScalingStep ==
    /\ pc = "conv_mixed" /\ pc' = "conv_normalized"
    /\ Peak(audio.data) > 0

\* C16: when the peak is above zero every sample is scaled by 0.95/peak, so
\* that the largest magnitude becomes 0.95; when the input is all zero,
\* nothing is scaled, the conversion does not fail (short of the write
\* itself), and every output sample is 0.
C16_PeakNormalisation ==
    /\ [][ScalingStep =>
            /\ \A k \in 1..Len(audio.data) : \A j \in DOMAIN audio.data[k] :
                   audio'.data[k][j] * HeadroomDen * Peak(audio.data)
                       = audio.data[k][j] * HeadroomNum * audio'.den
            /\ Peak(audio'.data) * HeadroomDen = HeadroomNum * audio'.den]_vars
    /\ []((pc \in {"conv_rate", "conv_resampled", "conv_mixed",
                   "conv_normalized", "conv_quantized", "conv_written",
                   "conv_failed"} /\ audio.silent_in) =>
            /\ audio.failed_at \in {"none", "write"}
            /\ AllZero(audio.data)
            /\ AllZero(audio.data_16bit))

\* C19: when the rates differ, resampling n input frames asks for the integer
\* nearest to n * targetRate / inputRate.
C19_ResampleCount ==
    (pc \in {"conv_resampled", "conv_mixed", "conv_normalized",
             "conv_quantized", "conv_written"}
     /\ audio.n_in >= 1
     /\ audio.sample_rate # audio.target_sample_rate) =>
        2 * Abs(audio.num_samples * audio.sample_rate
                - audio.n_in * audio.target_sample_rate) <= audio.sample_rate

\* C20: quantisation maps a sample s in [-1, 1] to the integer nearest to
\* s * 32767, within [-32768, 32767].
C20_QuantiseRounds ==
    pc \in {"conv_quantized", "conv_written"} =>
        \A k \in 1..Len(audio.data) : \A j \in DOMAIN audio.data[k] :
            /\ audio.data_16bit[k][j] \in -32768..32767
            /\ 2 * Abs(audio.data_16bit[k][j] * audio.den
                       - audio.data[k][j] * FullScale) <= audio.den

----------------------------------------------------------------------------
(* Claims about repeated runs, checked under SpecRerun *)

\* the paths of the directories of a destination
DirPaths(dest) == {e.path : e \in {x \in dest : x.kind = "dir"}}

\* C17: a later run over the unchanged source into the destination the first
\* run produced succeeds, creates again every directory that is already
\* there, and produces exactly the directory and file names of the first run.
C17_RerunProducesSameNames ==
    \A k \in 2..mirror.run :
        /\ mirror.runs[k].result = "success"
        /\ DirPaths(mirror.runs[1].dest) \subseteq mirror.runs[k].produced
        /\ mirror.runs[k].produced = mirror.runs[1].produced
        /\ mirror.runs[k].dest = mirror.runs[1].dest

\* C17 witness: a second run has gone again through a subdirectory and
\* written a file below it.
C17_Witness ==
    /\ mirror.run = 2
    /\ \E p \in mirror.runs[2].produced :
          Len(p) = 2 /\ FileAt(p) \in mirror.dest

----------------------------------------------------------------------------
(* The file counter of one call of process_directory *)

\* the calls that are on the stack before and after a step
KeptFrames == {k \in 1..Len(stack) : k <= Len(stack')}

\* by how much the counter of call k grows in a step
CounterGrowth(k) == stack'[k].file_counter - stack[k].file_counter

\* the counter of every active call is the number of files it has written
CounterCountsWritten ==
    variant \in LocalFamily =>
        \A k \in 1..Len(stack) : stack[k].file_counter = Len(stack[k].outs)

\* a step moves a counter by one exactly when the call writes a file
CounterStep ==
    variant \in LocalFamily =>
        \A k \in KeptFrames :
            /\ CounterGrowth(k) = Len(stack'[k].outs) - Len(stack[k].outs)
            /\ CounterGrowth(k) \in {0, 1}
            /\ CounterGrowth(k) = 1 => k = Len(stack) /\ last'.op = "converted"
            /\ stack'[k].fails > stack[k].fails => CounterGrowth(k) = 0
            /\ last'.op \in {"skipped", "convert_failed", "dir_entered",
                             "dir_not_entered", "list_denied", "mkdir_failed"}
                    => CounterGrowth(k) = 0

\* C21: in the local, macOS and GUI front ends the file counter of a call of
\* process_directory equals the number of .wav files the call has converted
\* so far: it grows by one after each successful conversion and is left alone
\* by a skipped file, a failed conversion and a subdirectory
C21_CounterCountsConversions == [](CounterCountsWritten) /\ [][CounterStep]_vars

\* a call has converted one file and failed on another
C21_Witness ==
    /\ variant \in LocalFamily
    /\ stack # <<>>
    /\ Top.file_counter = 1
    /\ Top.fails = 1
    /\ Len(Top.outs) = 1

\* a step leaves the counter of every call below the innermost one alone, and
\* a call that begins starts its own counter at 0 and leaves its caller's
CounterScopedStep ==
    variant \in LocalFamily =>
        /\ \A k \in KeptFrames : k < Len(stack) => CounterGrowth(k) = 0
        /\ Len(stack') > Len(stack) =>
                /\ stack'[Len(stack')].file_counter = 0
                /\ stack # <<>> => CounterGrowth(Len(stack)) = 0

----------------------------------------------------------------------------
(* Names written by the remote-share front end *)

\* C23: in the remote-share process_directory, two distinct qualifying files
\* of one directory that normalise to the same stem and both convert are
\* written under strictly increasing counters and under different names
C23_SmbSameStemGetsDistinctNames ==
    variant = "remote" =>
        \A w \in WrittenPairs :
            LET first == stack[w[1]].outs[w[2]]
                second == stack[w[1]].outs[w[3]]
            IN (first.src # second.src
                /\ FilteredStem(first.src) = FilteredStem(second.src)) =>
                    /\ first.counter < second.counter
                    /\ first.dst # second.dst

----------------------------------------------------------------------------
(* Whitespace, the extension and a second pass of normalize_name *)

\* the whitespace characters of the alphabet
Whitespace == {" ", "TAB"}

\* every whitespace character turned into an underscore
WhitespaceToUnderscore(s) ==
    [i \in 1..Len(s) |-> IF s[i] \in Whitespace THEN "_" ELSE s[i]]

\* the stem when every whitespace run becomes one underscore before the filter
WhitespaceStem(name) ==
    StripUnderscores(CollapseUnderscores(FilterWord(WhitespaceToUnderscore(
        NFKD(PathStem(name))))))

\* C24: normalize_name replaces every run of whitespace (spaces, tabs, any
\* whitespace) with a single underscore before the filter, so two words
\* separated by a whitespace run stay separated by exactly one underscore
C24_WhitespaceRunBecomesUnderscore ==
    (Returned /\ arg_counter = 0 /\ WhitespaceStem(arg_name) # <<>>) =>
        ReturnedStem = WhitespaceStem(arg_name)

\* the filter chain of a stem, applied to any text
FilteredText(s) ==
    StripUnderscores(CollapseUnderscores(FilterWord(ReplaceSpaces(NFKD(s)))))

\* the stem a front end would choose for the text before the last dot
StemBeforeLastDot ==
    LET before == FilteredText(SubSeq(arg_name, 1, LastDot(arg_name) - 1))
    IN IF variant = "remote" THEN SmbStem(before)
       ELSE CounterStem(before, arg_counter)

\* the lowercased text after the last dot
TextAfterLastDot ==
    LowerStr(SubSeq(arg_name, LastDot(arg_name) + 1, Len(arg_name)))

\* C25: normalize_name splits the name at its last '.': for every name that
\* holds a '.', one that starts or ends with '.' included, the extension is the
\* lowercased text after the last '.' and only the text before it is filtered
\* as the stem; a name with no '.' has no extension and its result has no '.'
C25_SplitsAtLastDot ==
    Returned =>
        IF LastDot(arg_name) = 0
        THEN \A i \in 1..Len(norm_out) : norm_out[i] # "."
        ELSE \/ norm_out = StemBeforeLastDot \o <<".">> \o TextAfterLastDot
             \/ TextAfterLastDot = <<>> /\ norm_out = StemBeforeLastDot

\* s has no underscore at either end and no two underscores in a row
CleanUnderscores(s) ==
    /\ s # <<>> => s[1] # "_" /\ s[Len(s)] # "_"
    /\ \A i \in 1..(Len(s) - 1) : ~(s[i] = "_" /\ s[i + 1] = "_")

\* C29: with counter 0 normalize_name is idempotent,
\* normalize_name(normalize_name(x, 0), 0) = normalize_name(x, 0), and the
\* stem of a result has no leading or trailing underscore and no two
\* underscores in a row
C29_IdempotentAtCounterZero ==
    /\ (Returned /\ arg_counter = 0) => CleanUnderscores(ReturnedStem)
    /\ (pc = "norm_twice" /\ arg_counter = 0) => norm_out = arg_name

\* "File with spaces.wav" has been normalised twice by the local front end
C29_Witness ==
    /\ pc = "norm_twice"
    /\ variant = "local"
    /\ arg_counter = 0
    /\ arg_name = normalize_name(SpacedWav, 0)
    /\ arg_name # SpacedWav

----------------------------------------------------------------------------
(* The staging directory of the remote-share front end *)

\* C26: in run_automation of the remote-share front end, for every run that
\* got past the connection step, temp_roland_processing no longer exists when
\* the run returns, whether the run succeeded, failed, or raised during the
\* traversal or while the session was closed
C26_StagingDirectoryRemoved ==
    (variant = "remote" /\ pc = "done" /\ session # "none") => ~temp_dir

----------------------------------------------------------------------------
(* The GUI's worker, checked under SpecGui and SpecGuiLive *)

\* the worker is somewhere in run_processing
InRunProcessing == pc \in {"start", "running", "finally"}

\* C27: in the GUI at most one worker thread executes run_processing at any
\* time: Start can be pressed only while no run is in progress, and it is
\* enabled again only by processing_finished, after the worker has ended
C27_SingleWorker ==
    /\ gui.workers <= 1
    /\ InRunProcessing => gui.workers = 1 /\ gui.start_button = "disabled"
    /\ gui.start_button = "normal" => gui.workers = 0 /\ gui.pending = 0

\* a second run is under way after the first one has finished
C27_Witness ==
    /\ gui.restarted
    /\ gui.workers = 1
    /\ pc = "running"
    /\ stack # <<>>
    /\ Top.i = 1

\* the application is idle: the flag is cleared, Start is enabled, Stop is not
Idle ==
    /\ pc = "idle"
    /\ ~is_processing
    /\ gui.start_button = "normal"
    /\ gui.stop_button = "disabled"
    /\ gui.pending = 0

\* processing_finished is queued exactly once for a run, when the worker ends
ScheduledOnce ==
    /\ gui.scheduled <= 1
    /\ InRunProcessing => gui.scheduled = 0
    /\ pc = "done" => gui.scheduled = 1 /\ gui.pending = 1

\* C28: every started run of the GUI returns the application to idle:
\* however run_processing ends (success, cancellation, the early return on a
\* missing source, an exception), processing_finished is queued exactly
\* once, and after it is_processing is false, Start is enabled and Stop is
\* disabled
C28_RunReturnsToIdle ==
    /\ [](ScheduledOnce)
    /\ (pc = "start") ~> (Idle /\ gui.scheduled = 1)

\* a run that failed has brought the application back to idle
C28_Witness ==
    /\ Idle
    /\ gui.scheduled = 1
    /\ result = "failed"

----------------------------------------------------------------------------
(* Sibling directories, checked under SpecRerun *)

\* the directories of the root listing, as pairs of different positions
SiblingDirs ==
    {<<i, j>> \in (1..Len(mirror.tree)) \X (1..Len(mirror.tree)) :
        i < j /\ mirror.tree[i].is_dir /\ mirror.tree[j].is_dir}

\* C30: two distinct sibling source directories are mirrored to two distinct
\* destination directories, so the files of one are never written into the
\* destination of the other
C30_SiblingsGetDistinctTargets ==
    mirror.run >= 1 =>
        /\ \A k \in 1..mirror.run : mirror.runs[k].shared = {}
        /\ \A p \in SiblingDirs :
              normalize_name(mirror.tree[p[1]].name, 0)
                  # normalize_name(mirror.tree[p[2]].name, 0)

=============================================================================
